---- MODULE Spec2Model ----
(***************************************************************************)
(* Model of AppointmentsService (appointments.service.ts): the appointment *)
(* store, its three command handlers (create, delete, update link) and the *)
(* query handlers by doctor, active-for-doctor and the role- and           *)
(* filter-scoped listing getAllAppointments.                               *)
(*                                                                         *)
(* Time is counted in clock units (the code's milliseconds); a calendar    *)
(* day is DayLen units long.                                               *)
(***************************************************************************)
EXTENDS Integers, Sequences, FiniteSets, TLC

VARIABLES appointments, nextId, now, whereUndefined, last

vars == <<appointments, nextId, now, whereUndefined, last>>

(***************************************************************************)
(* Bounds of the model.                                                    *)
(***************************************************************************)
DayLen == 2          \* clock units per calendar day
Days == 4            \* appointment instants range over Days calendar days
MaxDuration == 2     \* longest window a create request asks for
MaxId == 2           \* identifiers the store hands out
Ticks == 1           \* how often the clock advances
MaxOffset == 1       \* pagination.offset ranges over 0..MaxOffset
MaxLimit == 2        \* pagination.limit ranges over 1..MaxLimit
ServerZone == 1      \* the server's zone is this many units east of UTC

MaxTime == Days * DayLen - 1
FirstNow == (Days \div 2) * DayLen   \* the clock when the service starts
MaxNow == FirstNow + Ticks
Times == 0 .. MaxTime

(***************************************************************************)
(* Role and Filter (@common/enums), as getAllAppointments uses them.  A    *)
(* doctor row may carry a role that is neither of the two the listing      *)
(* knows; a request may carry a filter that is none of the three.          *)
(***************************************************************************)
LocalDoctor == "local"
RemoteDoctor == "remote"
Filters == {"today", "future", "past", "bogus"}

(***************************************************************************)
(* doctorRepository: the doctor table.  It is only read by this service.   *)
(* Doctors 1, 2 are local, 3, 4 remote, 5 has another role; 6 is no row.   *)
(***************************************************************************)
LocalDoctorIds == {1, 2}
RemoteDoctorIds == {3, 4}
doctorRepository ==
    [d \in 1 .. 5 |-> IF d \in LocalDoctorIds THEN LocalDoctor
                       ELSE IF d \in RemoteDoctorIds THEN RemoteDoctor
                       ELSE "other"]
DoctorIds == 1 .. 6
PatientIds == {1}
Links == {"a", "b"}

(***************************************************************************)
(* moment: an instant plus the mode (local or UTC) in which calendar       *)
(* fields are read.  utc() switches the mode and keeps the instant;        *)
(* toDate() yields the instant; startOf('day') and endOf('day') cut at the *)
(* midnight of the moment's mode; add/subtract of days move whole days.    *)
(***************************************************************************)
moment(t) == [instant |-> t, isUTC |-> FALSE]
utc(m) == [m EXCEPT !.isUTC = TRUE]
toDate(m) == m.instant
ZoneShift(m) == IF m.isUTC THEN 0 ELSE ServerZone
startOfDay(m) == [m EXCEPT !.instant = m.instant - ((m.instant + ZoneShift(m)) % DayLen)]
endOfDay(m) == [m EXCEPT !.instant = startOfDay(m).instant + DayLen - 1]
addDays(m, n) == [m EXCEPT !.instant = m.instant + n * DayLen]
subtractDays(m, n) == [m EXCEPT !.instant = m.instant - n * DayLen]

(***************************************************************************)
(* The appointment table's rule on save: a row is rejected when it shares  *)
(* a doctor with a stored row and their [startTime, endTime] windows       *)
(* overlap.                                                                *)
(***************************************************************************)
Involves(a, d) == a.localDoctorId = d \/ a.remoteDoctorId = d
SharesDoctor(a, b) ==
    \E d \in {a.localDoctorId, a.remoteDoctorId} : Involves(b, d)
Overlaps(a, b) == a.startTime <= b.endTime /\ b.startTime <= a.endTime
SaveRejected(row) ==
    \E a \in appointments : SharesDoctor(a, row) /\ Overlaps(a, row)

NoDto == [link |-> "", startTime |-> 0, endTime |-> 0,
          localDoctorId |-> 0, remoteDoctorId |-> 0, patientId |-> 0]
NoPagination == [offset |-> 0, limit |-> 0, filter |-> "", showAll |-> FALSE]
NoRequest == [op |-> "none", id |-> 0, dto |-> NoDto, pagination |-> NoPagination,
              link |-> "", at |-> 0, outcome |-> "ok", result |-> <<>>, rows |-> {}]

Dtos ==
    { [link |-> "a", startTime |-> s, endTime |-> e,
       localDoctorId |-> l, remoteDoctorId |-> r, patientId |-> p] :
        s \in Times, e \in Times, l \in LocalDoctorIds,
        r \in RemoteDoctorIds, p \in PatientIds }

CreateRequests ==
    { d \in Dtos : d.startTime < d.endTime /\ d.endTime - d.startTime <= MaxDuration }

Init ==
    /\ appointments = {}
    /\ nextId = 1
    /\ now = FirstNow
    /\ whereUndefined \in {"ignored", "throws"}
    /\ last = NoRequest

\* createAppointment with a save that never rejects.
createAppointment_unchecked(dto) ==
    /\ nextId <= MaxId
    /\ appointments' = appointments \cup
            {[id |-> nextId, link |-> dto.link,
              startTime |-> dto.startTime, endTime |-> dto.endTime,
              localDoctorId |-> dto.localDoctorId,
              remoteDoctorId |-> dto.remoteDoctorId, patientId |-> dto.patientId]}
    /\ nextId' = nextId + 1
    /\ last' = [NoRequest EXCEPT !.op = "create", !.dto = dto, !.at = now]
    /\ UNCHANGED <<now, whereUndefined>>

\* createAppointment with a catch that swallows the save's error.
createAppointment_swallow(dto) ==
    LET appointment == [id |-> nextId, link |-> dto.link,
                        startTime |-> dto.startTime, endTime |-> dto.endTime,
                        localDoctorId |-> dto.localDoctorId,
                        remoteDoctorId |-> dto.remoteDoctorId,
                        patientId |-> dto.patientId]
    IN  /\ nextId <= MaxId
        /\ IF SaveRejected(appointment)
           THEN /\ UNCHANGED <<appointments, nextId>>
                /\ last' = [NoRequest EXCEPT !.op = "create", !.dto = dto, !.at = now]
           ELSE /\ appointments' = appointments \cup {appointment}
                /\ nextId' = nextId + 1
                /\ last' = [NoRequest EXCEPT !.op = "create", !.dto = dto, !.at = now,
                                             !.result = <<appointment>>]
        /\ UNCHANGED <<now, whereUndefined>>

(***************************************************************************)
(* createAppointment: both instants go through moment(..).utc().toDate(),  *)
(* the row is saved, and any error of the save becomes a Conflict.         *)
(***************************************************************************)
createAppointment(dto) ==
    LET startTime == toDate(utc(moment(dto.startTime)))
        endTime == toDate(utc(moment(dto.endTime)))
        appointment == [id |-> nextId, link |-> dto.link,
                        startTime |-> startTime, endTime |-> endTime,
                        localDoctorId |-> dto.localDoctorId,
                        remoteDoctorId |-> dto.remoteDoctorId,
                        patientId |-> dto.patientId]
    IN  /\ nextId <= MaxId
        /\ IF SaveRejected(appointment)
           THEN /\ UNCHANGED <<appointments, nextId>>
                /\ last' = [NoRequest EXCEPT !.op = "create", !.dto = dto, !.at = now,
                                             !.outcome = "Conflict"]
           ELSE /\ appointments' = appointments \cup {appointment}
                /\ nextId' = nextId + 1
                /\ last' = [NoRequest EXCEPT !.op = "create", !.dto = dto, !.at = now,
                                             !.result = <<appointment>>]
        /\ UNCHANGED <<now, whereUndefined>>

(***************************************************************************)
(* deleteAppointment: delete by id; no row, no error.                      *)
(***************************************************************************)
deleteAppointment(id) ==
    /\ appointments' = {a \in appointments : a.id # id}
    /\ last' = [NoRequest EXCEPT !.op = "delete", !.id = id, !.at = now]
    /\ UNCHANGED <<nextId, now, whereUndefined>>

\* postLinkAppointment with an update that lost its id criterion.
postLinkAppointment_all(id, link) ==
    /\ appointments' = {[a EXCEPT !.link = link] : a \in appointments}
    /\ last' = [NoRequest EXCEPT !.op = "updateLink", !.id = id, !.link = link,
                                 !.at = now]
    /\ UNCHANGED <<nextId, now, whereUndefined>>

(***************************************************************************)
(* postLinkAppointment: update(id, {link}); no row, no error.              *)
(***************************************************************************)
postLinkAppointment(id, link) ==
    /\ appointments' = {IF a.id = id THEN [a EXCEPT !.link = link] ELSE a :
                            a \in appointments}
    /\ last' = [NoRequest EXCEPT !.op = "updateLink", !.id = id, !.link = link,
                                 !.at = now]
    /\ UNCHANGED <<nextId, now, whereUndefined>>

(***************************************************************************)
(* getAllAppointmentsByDoctorId: every row with the doctor on either side; *)
(* an empty answer is thrown as UnauthorizedException.                     *)
(***************************************************************************)
getAllAppointmentsByDoctorId(id) ==
    LET found == {a \in appointments : a.localDoctorId = id \/ a.remoteDoctorId = id}
    IN  /\ last' = [NoRequest EXCEPT !.op = "listByDoctor", !.id = id, !.at = now,
                        !.outcome = IF found = {} THEN "Unauthorized" ELSE "ok",
                        !.rows = found]
        /\ UNCHANGED <<appointments, nextId, now, whereUndefined>>

(***************************************************************************)
(* getActiveAppointmentByDoctorId: getOne() of the rows with               *)
(* start_time < now AND end_time > now and the doctor on either side.      *)
(* getOne() yields one of the matching rows, or nothing.                   *)
(***************************************************************************)
\* ActiveRows with start_time <= now.
ActiveRows_inclusive(id, at) ==
    {a \in appointments :
        /\ a.startTime <= at /\ a.endTime > at
        /\ (a.remoteDoctorId = id \/ a.localDoctorId = id)}

ActiveRows(id, at) ==
    {a \in appointments :
        /\ a.startTime < toDate(utc(moment(at))) /\ a.endTime > toDate(utc(moment(at)))
        /\ (a.remoteDoctorId = id \/ a.localDoctorId = id)}

getActiveAppointmentByDoctorId(id) ==
    /\ \E r \in (IF ActiveRows(id, now) = {} THEN {<<>>}
                 ELSE {<<a>> : a \in ActiveRows(id, now)}) :
          last' = [NoRequest EXCEPT !.op = "getActive", !.id = id, !.at = now,
                                    !.result = r]
    /\ UNCHANGED <<appointments, nextId, now, whereUndefined>>

(***************************************************************************)
(* getAllAppointments.                                                     *)
(*                                                                         *)
(* The builder's first where() receives whereClause before any branch has  *)
(* assigned it, that is, undefined.  What where(undefined) does is the     *)
(* query library's business: it adds no condition, or it throws a          *)
(* TypeError; whereUndefined is the behaviour of the build at hand.  The   *)
(* strings assigned to whereClause in the switch are never read.           *)
(***************************************************************************)
Project(a) == [id |-> a.id, link |-> a.link, startTime |-> a.startTime,
               endTime |-> a.endTime, patientId |-> a.patientId]

\* DoctorScope with showAll honoured for remote doctors too.
DoctorScope_showAllRemote(role, showAll, id, a) ==
    IF role = LocalDoctor
    THEN (~showAll => a.localDoctorId = id)
    ELSE (~showAll => a.remoteDoctorId = id)

\* The andWhere of the role branches (the caller has excluded other roles).
DoctorScope(role, showAll, id, a) ==
    IF role = LocalDoctor
    THEN (~showAll => a.localDoctorId = id)
    ELSE a.remoteDoctorId = id

\* nextDay and prevDay with add(offset) and subtract(offset).
nextDay_offset(at, offset) ==
    toDate(startOfDay(addDays(moment(toDate(startOfDay(moment(at)))), offset)))
prevDay_offset(at, offset) ==
    toDate(endOfDay(subtractDays(moment(toDate(startOfDay(moment(at)))), offset)))

\* The andWhere of the filter's case; the today case adds none.
nextDay(at, offset) ==
    toDate(startOfDay(addDays(moment(toDate(startOfDay(moment(at)))), offset + 1)))
prevDay(at, offset) ==
    toDate(endOfDay(subtractDays(moment(toDate(startOfDay(moment(at)))), offset + 1)))
FilterCondition(filter, offset, at, a) ==
    CASE filter = "today" -> TRUE
      [] filter = "future" ->
            /\ a.startTime >= toDate(startOfDay(moment(at)))
            /\ a.startTime < nextDay(at, offset)
      [] filter = "past" ->
            /\ a.endTime >= prevDay(at, offset)
            /\ a.endTime < toDate(startOfDay(moment(at)))

\* The column of the filter's orderBy(.., 'ASC').
OrderKey(filter, a) == IF filter = "past" THEN a.endTime ELSE a.startTime

\* The orders in which ORDER BY may hand back the rows S: ascending by the
\* key, rows of equal key in any order.
Orderings(S, filter) ==
    {s \in [1 .. Cardinality(S) -> S] :
        \A i, j \in 1 .. Cardinality(S) :
            i < j => s[i] # s[j] /\ OrderKey(filter, s[i]) <= OrderKey(filter, s[j])}

\* skip(n).take(k) of an ordered answer.
SkipTake(s, n, k) ==
    SubSeq(s, n + 1, IF n + k < Len(s) THEN n + k ELSE Len(s))

getMany(id, role, pagination, at) ==
    LET matching == {a \in appointments :
                        /\ DoctorScope(role, pagination.showAll, id, a)
                        /\ FilterCondition(pagination.filter, pagination.offset, at, a)}
    IN  {[i \in DOMAIN page |-> Project(page[i])] :
            page \in {SkipTake(s, pagination.offset * pagination.limit, pagination.limit) :
                         s \in Orderings(matching, pagination.filter)}}

Paginations ==
    [offset : 0 .. MaxOffset, limit : 1 .. MaxLimit, filter : Filters,
     showAll : BOOLEAN]

getAllAppointments(id, pagination) ==
    LET req == [NoRequest EXCEPT !.op = "listAll", !.id = id,
                                 !.pagination = pagination, !.at = now]
    IN  /\ IF id \notin DOMAIN doctorRepository
           THEN last' = [req EXCEPT !.outcome = "NotFound"]
           ELSE IF whereUndefined = "throws"
           THEN last' = [req EXCEPT !.outcome = "TypeError"]
           ELSE IF doctorRepository[id] \notin {LocalDoctor, RemoteDoctor}
           THEN last' = [req EXCEPT !.outcome = "BadRequest"]
           ELSE IF pagination.filter \notin {"today", "future", "past"}
           THEN last' = [req EXCEPT !.outcome = "BadRequest"]
           ELSE \E r \in getMany(id, doctorRepository[id], pagination, now) :
                    last' = [req EXCEPT !.result = r]
        /\ UNCHANGED <<appointments, nextId, now, whereUndefined>>

(***************************************************************************)
(* The clock.                                                              *)
(***************************************************************************)
Tick ==
    /\ now < MaxNow
    /\ now' = now + 1
    /\ UNCHANGED <<appointments, nextId, whereUndefined, last>>

(***************************************************************************)
(* Spec: the command handlers and the two unpaginated doctor queries,      *)
(* requests arriving in any order.  Each handler makes one store call, so  *)
(* two racing requests are two store calls in one order or the other.      *)
(***************************************************************************)
Next ==
    \/ \E dto \in CreateRequests : createAppointment(dto)
    \/ \E id \in 1 .. MaxId : deleteAppointment(id)
    \/ \E id \in 1 .. MaxId, link \in Links : postLinkAppointment(id, link)
    \/ \E id \in DoctorIds : getAllAppointmentsByDoctorId(id)
    \/ \E id \in DoctorIds : getActiveAppointmentByDoctorId(id)
    \/ Tick

Spec == Init /\ [][Next]_vars

(***************************************************************************)
(* SpecList: the listing getAllAppointments over stores built from         *)
(* bookings of one clock unit, at the clock's first reading.  The listing  *)
(* is asked for by one doctor of each kind: a local one, a remote one, one *)
(* of another role and an id that is no doctor; the other local and remote *)
(* doctor take part in the appointments.                                   *)
(***************************************************************************)
ListRequests == {d \in CreateRequests : d.endTime = d.startTime + 1}
Requesters ==
    {CHOOSE d \in LocalDoctorIds : TRUE, CHOOSE d \in RemoteDoctorIds : TRUE}
        \cup (DoctorIds \ (LocalDoctorIds \cup RemoteDoctorIds))

NextList ==
    \/ \E dto \in ListRequests : createAppointment(dto)
    \/ \E id \in 1 .. MaxId : deleteAppointment(id)
    \/ \E id \in Requesters, pagination \in Paginations : getAllAppointments(id, pagination)

SpecList == Init /\ [][NextList]_vars

(***************************************************************************)
(* Properties.  A request's record in `last` stays the latest one as long  *)
(* as the store is what the request saw: every command writes `last`, and  *)
(* queries and the clock leave the store alone.                            *)
(***************************************************************************)
ShareADoctor(a, b) ==
    {a.localDoctorId, a.remoteDoctorId} \cap {b.localDoctorId, b.remoteDoctorId} # {}
WindowsMeet(s1, e1, s2, e2) ==
    \E t \in Times : s1 <= t /\ t <= e1 /\ s2 <= t /\ t <= e2

OverlappingCreateStep ==
    /\ last' # last
    /\ last'.op = "create"
    /\ \E a \in appointments :
          /\ \/ a.localDoctorId = last'.dto.localDoctorId
             \/ a.remoteDoctorId = last'.dto.remoteDoctorId
          /\ WindowsMeet(a.startTime, a.endTime,
                         last'.dto.startTime, last'.dto.endTime)

\* C2: a create request whose window overlaps a stored appointment of the
\* same local or the same remote doctor fails with Conflict and leaves the
\* store as it was.
OverlappingCreateConflicts ==
    [][OverlappingCreateStep
          => last'.outcome = "Conflict" /\ appointments' = appointments]_vars

\* C2 witness: a create request was refused with Conflict while the store
\* holds an overlapping appointment of one of its doctors.
CreateRefused ==
    /\ last.op = "create" /\ last.outcome = "Conflict"
    /\ \E a \in appointments :
          /\ \/ a.localDoctorId = last.dto.localDoctorId
             \/ a.remoteDoctorId = last.dto.remoteDoctorId
          /\ WindowsMeet(a.startTime, a.endTime, last.dto.startTime, last.dto.endTime)

\* C3 as stated: getActiveForDoctor(D) returns an appointment iff some
\* appointment involving D has start <= now < end, and never more than one.
ActiveIffStartInclusive ==
    last.op = "getActive" =>
        /\ Len(last.result) <= 1
        /\ last.result # <<>> <=>
              \E a \in appointments :
                  /\ last.id \in {a.localDoctorId, a.remoteDoctorId}
                  /\ a.startTime <= last.at /\ last.at < a.endTime

\* C3 amended: getActiveForDoctor(D) returns an appointment iff some
\* appointment involving D has start < now < end; what it returns is one
\* such appointment, and never more than one.
ActiveIffStrictlyInside ==
    last.op = "getActive" =>
        /\ last.outcome = "ok"
        /\ Len(last.result) <= 1
        /\ last.result # <<>> <=>
              \E a \in appointments :
                  /\ last.id \in {a.localDoctorId, a.remoteDoctorId}
                  /\ a.startTime < last.at /\ last.at < a.endTime
        /\ last.result # <<>> =>
              /\ last.result[1] \in appointments
              /\ last.id \in {last.result[1].localDoctorId, last.result[1].remoteDoctorId}
              /\ last.result[1].startTime < last.at /\ last.at < last.result[1].endTime

\* C3 witness: an active appointment was returned while another appointment
\* of the doctor is stored.
ActiveReturned ==
    /\ last.op = "getActive" /\ last.result # <<>>
    /\ \E a \in appointments :
          a # last.result[1] /\ last.id \in {a.localDoctorId, a.remoteDoctorId}

\* C8: listByDoctor(D) fails with NotFound when no stored appointment has D
\* on either side, and otherwise returns exactly the appointments that do.
ListByDoctorNotFound ==
    last.op = "listByDoctor" =>
        LET mine == {a \in appointments :
                        last.id \in {a.localDoctorId, a.remoteDoctorId}}
        IN  IF mine = {} THEN last.outcome = "NotFound"
            ELSE last.outcome = "ok" /\ last.rows = mine

\* A step that is a delete or an updateLink request for an id not stored.
MissingIdStep ==
    /\ last' # last
    /\ last'.op \in {"delete", "updateLink"}
    /\ \A a \in appointments : a.id # last'.id

\* A step that is an updateLink request for a stored id.
UpdateLinkStep ==
    /\ last' # last
    /\ last'.op = "updateLink"
    /\ \E a \in appointments : a.id = last'.id

\* C9: delete and updateLink on an id not in the store complete without
\* error and leave the store unchanged; updateLink on a stored id sets that
\* appointment's link and changes nothing else of it and no other row.
MissingIdIsNoOpAndLinkOnly ==
    [][/\ MissingIdStep => last'.outcome = "ok" /\ appointments' = appointments
       /\ UpdateLinkStep =>
            /\ last'.outcome = "ok"
            /\ Cardinality(appointments') = Cardinality(appointments)
            /\ \A a \in appointments :
                  IF a.id = last'.id
                  THEN [a EXCEPT !.link = last'.link] \in appointments'
                  ELSE a \in appointments']_vars

\* C9 witness: a link was changed while another appointment is stored.
LinkChanged ==
    /\ last.op = "updateLink"
    /\ \E a, b \in appointments :
          a.id = last.id /\ a.link = "b" /\ b.id # a.id /\ b.link = "a"

(***************************************************************************)
(* Properties of the listing.  The rows of an answer are projections; the  *)
(* stored row of each is found by its id.                                  *)
(***************************************************************************)
Row(r) == CHOOSE a \in appointments : a.id = r.id
Listed == last.op = "listAll" /\ last.outcome = "ok"
Returned == {last.result[i] : i \in DOMAIN last.result}

\* start-of-today: the server's midnight at or before the request's instant.
StartOfToday ==
    CHOOSE s \in (last.at - DayLen + 1) .. last.at : (s + ServerZone) % DayLen = 0

\* The requesting doctor's view of the store.
InScope(a) ==
    CASE doctorRepository[last.id] = LocalDoctor ->
            last.pagination.showAll \/ a.localDoctorId = last.id
      [] doctorRepository[last.id] = RemoteDoctor -> a.remoteDoctorId = last.id

\* The pages an ordered, paginated listing of the rows W may be: W in an
\* ascending order of the key, less the first offset x limit rows, cut
\* after limit rows.
Ascending(W, byEnd) ==
    {s \in [1 .. Cardinality(W) -> W] :
        \A i, j \in 1 .. Cardinality(W) :
            i < j => /\ s[i] # s[j]
                     /\ IF byEnd THEN s[i].endTime <= s[j].endTime
                                 ELSE s[i].startTime <= s[j].startTime}
PagesOf(W, byEnd) ==
    LET skip == last.pagination.offset * last.pagination.limit
        n == Cardinality(W)
        upto == IF skip + last.pagination.limit < n
                THEN skip + last.pagination.limit ELSE n
    IN  {[i \in 1 .. (IF upto > skip THEN upto - skip ELSE 0) |-> s[skip + i].id] :
            s \in Ascending(W, byEnd)}
ReturnedIds == [i \in DOMAIN last.result |-> last.result[i].id]

\* C4: a today listing of a local doctor D without showAll returns only
\* appointments inside [start-of-today, end-of-today] with localDoctorId = D,
\* in ascending startTime order.
TodayListingWithinToday ==
    (/\ Listed /\ last.pagination.filter = "today"
     /\ doctorRepository[last.id] = LocalDoctor /\ ~last.pagination.showAll)
        => /\ \A r \in Returned :
                /\ Row(r).startTime >= StartOfToday
                /\ Row(r).endTime <= StartOfToday + DayLen - 1
                /\ Row(r).localDoctorId = last.id
           /\ \A i, j \in DOMAIN last.result :
                i < j => last.result[i].startTime <= last.result[j].startTime

\* C5 as stated: a future listing with offset N returns only appointments
\* with startTime in [start-of-today + N days, start-of-today + (N+1) days).
FutureListingInDayBucket ==
    (Listed /\ last.pagination.filter = "future")
        => \A r \in Returned :
              /\ Row(r).startTime >= StartOfToday + last.pagination.offset * DayLen
              /\ Row(r).startTime < StartOfToday + (last.pagination.offset + 1) * DayLen

\* The rows of the future window as the code cuts it.
FutureWindow ==
    {a \in appointments :
        /\ InScope(a)
        /\ a.startTime >= StartOfToday
        /\ a.startTime < StartOfToday + (last.pagination.offset + 1) * DayLen}

\* C5 amended: a future listing with offset N returns only appointments
\* with startTime in [start-of-today, start-of-today + (N+1) days); the
\* rows returned are those of that window in the doctor's scope, in
\* ascending startTime order, after skipping N x limit rows, at most limit.
FutureListingFromToday ==
    (Listed /\ last.pagination.filter = "future")
        => /\ \A r \in Returned : Row(r) \in FutureWindow
           /\ Len(last.result) <= last.pagination.limit
           /\ ReturnedIds \in PagesOf(FutureWindow, FALSE)

\* C5 witness: a future listing with offset 1 skipped a row and returned one.
FuturePageReturned ==
    /\ Listed /\ last.pagination.filter = "future"
    /\ last.pagination.offset = 1 /\ last.result # <<>>

\* C6: of a successful listing, a local doctor without showAll sees only
\* rows with localDoctorId = D; a remote doctor sees only rows with
\* remoteDoctorId = D, showAll or not; a local doctor with showAll sees the
\* rows of every doctor that pass the filter.
ListingDoctorScope ==
    Listed =>
        /\ (doctorRepository[last.id] = LocalDoctor /\ ~last.pagination.showAll)
              => \A r \in Returned : Row(r).localDoctorId = last.id
        /\ doctorRepository[last.id] = RemoteDoctor
              => \A r \in Returned : Row(r).remoteDoctorId = last.id
        /\ (doctorRepository[last.id] = LocalDoctor /\ last.pagination.showAll)
              => ReturnedIds \in
                    PagesOf({a \in appointments :
                                FilterCondition(last.pagination.filter,
                                                last.pagination.offset, last.at, a)},
                            last.pagination.filter = "past")

\* C6 witness: a local doctor's showAll listing returned another local
\* doctor's appointment.
ShowAllReturnedAnothersRow ==
    /\ Listed /\ doctorRepository[last.id] = LocalDoctor /\ last.pagination.showAll
    /\ \E r \in Returned : Row(r).localDoctorId # last.id

\* C7: listAll fails with NotFound for an unknown doctor id, with
\* InvalidRequest for a doctor whose role is neither local nor remote, and
\* with InvalidRequest for a filter other than today, future and past; in
\* each case no list is returned.
ListingErrors ==
    last.op = "listAll" =>
        /\ last.id \notin DOMAIN doctorRepository
              => last.outcome = "NotFound" /\ last.result = <<>>
        /\ (/\ last.id \in DOMAIN doctorRepository
            /\ doctorRepository[last.id] \notin {LocalDoctor, RemoteDoctor})
              => last.outcome = "BadRequest" /\ last.result = <<>>
        /\ (/\ last.id \in DOMAIN doctorRepository
            /\ last.pagination.filter \notin {"today", "future", "past"})
              => last.outcome = "BadRequest" /\ last.result = <<>>

\* The rows of the past window.
PastWindow ==
    {a \in appointments :
        /\ InScope(a)
        /\ a.endTime >= StartOfToday - (last.pagination.offset + 1) * DayLen + DayLen - 1
        /\ a.endTime < StartOfToday}

\* C10: a past listing with offset N returns only appointments with endTime
\* at or after the end of the day (start-of-today - (N+1) days) and before
\* start-of-today: the matching rows in ascending endTime order after
\* skipping N x limit rows, at most limit of them.
PastListingWindow ==
    (Listed /\ last.pagination.filter = "past")
        => /\ \A r \in Returned : Row(r) \in PastWindow
           /\ Len(last.result) <= last.pagination.limit
           /\ ReturnedIds \in PagesOf(PastWindow, TRUE)

\* C10 witness: a past listing with offset 1 skipped a row and returned one.
PastPageReturned ==
    /\ Listed /\ last.pagination.filter = "past"
    /\ last.pagination.offset = 1 /\ last.result # <<>>
====
